---- MODULE Spec2Model ----
(***************************************************************************)
(* Debug-trace request orchestrator (DebugNamespace, debug.rs).            *)
(*                                                                         *)
(* The module models the three handlers of the namespace:                  *)
(*   debug_trace_block_impl, debug_trace_transaction_impl (replay) and     *)
(*   debug_trace_call_impl (synchronous re-execution behind the VM         *)
(*   concurrency limiter, with a write-once capture cell).                 *)
(*                                                                         *)
(* A trace-by-call request is a process whose position pc[r] is the phase  *)
(* it is in; each action performs the work of that phase up to the next    *)
(* phase boundary.  The awaits of the handler (storage access, permit      *)
(* acquisition, VM call) are the points where other requests interleave    *)
(* and where the request future may be dropped (Cancel).                   *)
(***************************************************************************)
EXTENDS Integers, Sequences, FiniteSets, TLC

\* ------------------------------------------------------------------ bounds
NumReqs == 2
MaxCapacity == 1
MaxWrites == 2
MaxBlock == 2
MaxTx == 1
NumLiveReqs == 1
MaxLag == 5

Reqs == 1..NumReqs

\* ------------------------------------------------------------ option type
None == [some |-> FALSE]
Some(v) == [some |-> TRUE, val |-> v]

\* Option<TracerConfig> of a request, and the only_top_call read from it:
\* options.map(|options| options.tracer_config.only_top_call).unwrap_or(false).
TracerOptions == {None, Some(TRUE), Some(FALSE)}
OnlyTopCall(options) == IF options.some THEN options.val ELSE FALSE

\* -------------------------------------------------------------- call data
\* vm_trace::Call, reduced to the fields the handlers touch.
MkCall(gas, gas_used, value, input, output, revert_reason, calls) ==
    [gas |-> gas, gas_used |-> gas_used, value |-> value, input |-> input,
     output |-> output, revert_reason |-> revert_reason, calls |-> calls]

LeafCall(n) == MkCall(n, n, 0, <<n>>, <<n>>, None, <<>>)

\* The nested call vector (Vec<Call>) the CallTracer of request r's VM
\* invocation hands to the cell at its k-th write: two levels deep, and
\* different for every request and every write.
NestedCallsOf(r, k) ==
    << LeafCall(10 * r + k),
       MkCall(10 * r, k, 0, <<r>>, <<>>, None, <<LeafCall(10 * r + k)>>) >>

\* Call::new_high_level: the root of a trace-by-call response.
NewHighLevel(gas, gas_used, value, input, output, revert_reason, calls) ==
    MkCall(gas, gas_used, value, input, output, revert_reason, calls)

\* From<Call> for DebugCall: field-wise, children converted recursively.
RECURSIVE ToDebugCall(_)
ToDebugCall(c) ==
    [type |-> "Call", gas |-> c.gas, gasUsed |-> c.gas_used, value |-> c.value,
     input |-> c.input, output |-> c.output, revertReason |-> c.revert_reason,
     calls |-> [i \in DOMAIN c.calls |-> ToDebugCall(c.calls[i])]]

\* The L2Tx built from request r (L2Tx::from_request), reduced to the fields
\* the response is assembled from.
TxOf(r) == [gas_limit |-> 100 + r, value |-> r, calldata |-> <<r, r>>]

\* statistics.gas_used reported by the VM for request r.
GasUsedOf(r) == 20 + r

\* ------------------------------------------------------------ VM outcomes
\* ExecutionResult: Success { output }, Revert { output }, Halt { reason }.
\* Success carries bytes; Revert carries a VmRevertReason (field revert here,
\* output in the source) and Halt a Halt reason, structured values of which
\* Display prints the message.
RevertReasons ==
    { [variant |-> "General", msg |-> "insufficient funds", data |-> <<8, 195, 121>>] }
HaltReasons ==
    { [variant |-> "NotEnoughGasProvided", msg |-> "out of gas"] }
SuccessOutputs == { <<1, 2, 3>> }

ExecutionResults ==
    [tag : {"Success"}, output : SuccessOutputs]
    \cup [tag : {"Revert"}, revert : RevertReasons]
    \cup [tag : {"Halt"}, reason : HaltReasons]

NoVmResult == [tag |-> "None"]

\* Display::fmt (to_string) of a revert or halt reason.
Display(reason) == reason.msg

\* ------------------------------------------------------------------ state
VARIABLES
    pc,         \* pc[r]: phase of trace-by-call request r
    onlyTop,    \* only_top_call of request r
    conn,       \* r holds a storage connection
    capacity,   \* permits of the VM concurrency limiter, fixed at construction
    available,  \* permits not handed out
    closed,     \* the limiter was closed
    held,       \* requests whose VM invocation holds a permit
    cell,       \* call_tracer_result of request r: Arc<OnceCell<Vec<Call>>>
    tracers,    \* custom_tracers passed to the VM for request r
    setResults, \* what OnceCell::set answered to the tracer of r's running VM, in order
    vmResult,   \* result of execute_tx_eth_call as seen by the handler
    classified, \* (output, revert_reason) of request r
    trace,      \* the value extracted from r's cell
    reads,      \* extractions performed on r's cell
    released,   \* releases of the permit acquired by r
    result,     \* what the handler returned for r
    vmKeepsTracer, \* this build's VM layer outlives the call with its tracer handles
    abandonedAt, \* the phase in which r's future was dropped ("" if it was not)
    blockReply, \* the last debug_trace_block request and its response
    txReply,    \* the last debug_trace_transaction request and its response
    sealed,     \* state.last_sealed_miniblock: the number of the chain head
    askedBlocks, \* the block_id arguments (Option<BlockId>) clients send
    blockArgs,  \* what BlockArgs::new answered for request r
    observed    \* what request r handed to method_latency.observe

vars == <<pc, onlyTop, conn, capacity, available, closed, held, cell, tracers,
          setResults, vmResult, classified, trace, reads, released, result,
          vmKeepsTracer, abandonedAt, blockReply, txReply,
          sealed, askedBlocks, blockArgs, observed>>

callVars == <<pc, onlyTop, conn, capacity, available, closed, held, cell, tracers,
              setResults, vmResult, classified, trace, reads, released, result,
              vmKeepsTracer, abandonedAt, sealed, askedBlocks, blockArgs, observed>>

NoResult == [kind |-> "None"]
Ok(v) == [kind |-> "Ok", value |-> v]
Err(e, msg, data) == [kind |-> "Err", error |-> e, msg |-> msg, data |-> data]
Panic == [kind |-> "Panic"]

NoCell == [refs |-> 0, full |-> FALSE, value |-> <<>>]
NoClassified == [set |-> FALSE]

\* ------------------------------------------------------- block references
\* BlockId, reduced to the pending tag and explicit numbers.
Pending == [tag |-> "Pending"]
Number(n) == [tag |-> "Number", n |-> n]

\* BlockArgs::new against a chain whose head is last_sealed: the pending
\* block is evaluated on top of the head, an explicit number resolves when
\* the block is sealed, and a reference to a block that does not exist
\* resolves to nothing.
BlockArgsNew(block_id, last_sealed) ==
    IF block_id.tag = "Pending"
    THEN Some([block_id |-> block_id, resolved_block_number |-> last_sealed])
    ELSE IF block_id.n \in 1..last_sealed
         THEN Some([block_id |-> block_id, resolved_block_number |-> block_id.n])
         ELSE None

\* last_sealed_miniblock.diff(block_number).
Diff(last_sealed, block_number) == last_sealed - block_number

\* last_sealed_miniblock.diff_with_block_args(&block_args).
DiffWithBlockArgs(last_sealed, block_args) ==
    Diff(last_sealed, block_args.resolved_block_number)

\* The state after construction, whatever the chain and the requests are.
InitCommon ==
    /\ pc = [r \in Reqs |-> "Idle"]
    /\ onlyTop = [r \in Reqs |-> FALSE]
    /\ conn = [r \in Reqs |-> FALSE]
    /\ capacity \in 1..MaxCapacity
    /\ available = capacity
    /\ closed = FALSE
    /\ held = {}
    /\ cell = [r \in Reqs |-> NoCell]
    /\ tracers = [r \in Reqs |-> <<>>]
    /\ setResults = [r \in Reqs |-> <<>>]
    /\ vmResult = [r \in Reqs |-> NoVmResult]
    /\ classified = [r \in Reqs |-> NoClassified]
    /\ trace = [r \in Reqs |-> <<>>]
    /\ reads = [r \in Reqs |-> 0]
    /\ released = [r \in Reqs |-> 0]
    /\ result = [r \in Reqs |-> NoResult]
    /\ vmKeepsTracer \in BOOLEAN
    /\ abandonedAt = [r \in Reqs |-> ""]
    /\ blockReply = [called |-> FALSE]
    /\ txReply = [called |-> FALSE]
    /\ blockArgs = [r \in Reqs |-> NoResult]
    /\ observed = [r \in Reqs |-> None]

\* Concurrent requests: the head is block MaxBlock and a request names no
\* block (pending) or a block that does not exist yet.
Init ==
    /\ InitCommon
    /\ sealed = MaxBlock
    /\ askedBlocks = {None, Some(Number(MaxBlock + 1))}

\* The handlers side by side: the head is block MaxBlock or MaxLag blocks
\* past it, and a request names no block, block MaxBlock or the block MaxLag
\* blocks past it.
HandlersInit ==
    /\ InitCommon
    /\ sealed \in {MaxBlock, MaxBlock + MaxLag}
    /\ askedBlocks = {None, Some(Number(MaxBlock)), Some(Number(MaxBlock + MaxLag))}

\* ---------------------------------------------------------- the limiter
\* VmConcurrencyLimiter::acquire on an open limiter with a free permit.
CanAcquire == ~closed /\ available > 0

\* --------------------------------------------------------- the capture cell
\* OnceCellSet for a cell that can be set again: the last write wins.
OnceCellSet_Overwrite(c, v) ==
    [cell |-> [c EXCEPT !.full = TRUE, !.value = v], ok |-> TRUE]

\* OnceCell::set: stores v if the cell is empty, refuses it otherwise.
OnceCellSet(c, v) ==
    IF c.full THEN [cell |-> c, ok |-> FALSE]
    ELSE [cell |-> [c EXCEPT !.full = TRUE, !.value = v], ok |-> TRUE]

\* Drop of one Arc handle on the cell; the last drop frees it.
DropHandle(c) == IF c.refs <= 1 THEN NoCell ELSE [c EXCEPT !.refs = @ - 1]

\* ---------------------------------------------------------- trace-by-call
\* Entry of debug_trace_call_impl up to the first await (storage access).
Start(r) ==
    /\ pc[r] = "Idle"
    /\ \E options \in TracerOptions :
         onlyTop' = [onlyTop EXCEPT ![r] = OnlyTopCall(options)]
    /\ pc' = [pc EXCEPT ![r] = "ResolvingBlock"]
    /\ UNCHANGED <<conn, capacity, available, closed, held, cell, tracers,
                   setResults, vmResult, classified, trace, reads, released, result,
                   vmKeepsTracer, abandonedAt, blockReply, txReply,
                   sealed, askedBlocks, blockArgs, observed>>

\* access_storage_tagged("api") returns: a connection, or an internal error.
OpenConnection(r) ==
    /\ pc[r] = "ResolvingBlock"
    /\ ~conn[r]
    /\ \E ok \in BOOLEAN :
         IF ok
         THEN /\ conn' = [conn EXCEPT ![r] = TRUE]
              /\ UNCHANGED <<pc, result>>
         ELSE /\ pc' = [pc EXCEPT ![r] = "Failed"]
              /\ result' = [result EXCEPT ![r] = Err("InternalError", "", <<>>)]
              /\ UNCHANGED conn
    /\ UNCHANGED <<onlyTop, capacity, available, closed, held, cell, tracers,
                   setResults, vmResult, classified, trace, reads, released,
                   vmKeepsTracer, abandonedAt, blockReply, txReply,
                   sealed, askedBlocks, blockArgs, observed>>

\* block_id.unwrap_or(BlockId::Number(BlockNumber::Pending)).
BlockIdOrPending(block_id) == IF block_id.some THEN block_id.val ELSE Pending

\* ResolveBlock that takes a reference that resolves to nothing for the
\* pending block and carries on.
ResolveBlock_MissingAsPending(r) ==
    /\ pc[r] = "ResolvingBlock"
    /\ conn[r]
    /\ conn' = [conn EXCEPT ![r] = FALSE]
    /\ \E block_id \in askedBlocks, storage_ok \in BOOLEAN :
         LET answer == IF storage_ok
                       THEN Ok(BlockArgsNew(BlockIdOrPending(block_id), sealed))
                       ELSE Err("InternalError", "", <<>>)
         IN /\ blockArgs' = [blockArgs EXCEPT ![r] = answer]
            /\ IF answer.kind = "Err"
               THEN /\ pc' = [pc EXCEPT ![r] = "Failed"]
                    /\ result' = [result EXCEPT ![r] = answer]
               ELSE /\ pc' = [pc EXCEPT ![r] = "BuildingTx"]
                    /\ UNCHANGED result
    /\ UNCHANGED <<onlyTop, capacity, available, closed, held, cell, tracers,
                   setResults, vmResult, classified, trace, reads, released,
                   vmKeepsTracer, abandonedAt, blockReply, txReply,
                   sealed, askedBlocks, observed>>

\* ResolveBlock with the connection kept for the rest of the request.
ResolveBlock_KeepsConnection(r) ==
    /\ pc[r] = "ResolvingBlock"
    /\ conn[r]
    /\ \E block_id \in askedBlocks, storage_ok \in BOOLEAN :
         LET answer == IF storage_ok
                       THEN Ok(BlockArgsNew(BlockIdOrPending(block_id), sealed))
                       ELSE Err("InternalError", "", <<>>)
         IN /\ blockArgs' = [blockArgs EXCEPT ![r] = answer]
            /\ IF answer.kind = "Err"
               THEN /\ pc' = [pc EXCEPT ![r] = "Failed"]
                    /\ result' = [result EXCEPT ![r] = answer]
                    /\ conn' = [conn EXCEPT ![r] = FALSE]
               ELSE IF ~answer.value.some
               THEN /\ pc' = [pc EXCEPT ![r] = "Failed"]
                    /\ result' = [result EXCEPT ![r] = Err("NoBlock", "", <<>>)]
                    /\ conn' = [conn EXCEPT ![r] = FALSE]
               ELSE /\ pc' = [pc EXCEPT ![r] = "BuildingTx"]
                    /\ UNCHANGED <<result, conn>>
    /\ UNCHANGED <<onlyTop, capacity, available, closed, held, cell, tracers,
                   setResults, vmResult, classified, trace, reads, released,
                   vmKeepsTracer, abandonedAt, blockReply, txReply,
                   sealed, askedBlocks, observed>>

\* BlockArgs::new(&mut connection, block_id) returns, for the block_id the
\* request was called with: a storage error is an
\* internal error, no block is Web3Error::NoBlock, and block arguments let
\* the request go on.  The connection is dropped on every path.
ResolveBlock(r) ==
    /\ pc[r] = "ResolvingBlock"
    /\ conn[r]
    /\ conn' = [conn EXCEPT ![r] = FALSE]
    /\ \E block_id \in askedBlocks, storage_ok \in BOOLEAN :
         LET answer == IF storage_ok
                       THEN Ok(BlockArgsNew(BlockIdOrPending(block_id), sealed))
                       ELSE Err("InternalError", "", <<>>)
         IN /\ blockArgs' = [blockArgs EXCEPT ![r] = answer]
            /\ IF answer.kind = "Err"
               THEN /\ pc' = [pc EXCEPT ![r] = "Failed"]
                    /\ result' = [result EXCEPT ![r] = answer]
               ELSE IF ~answer.value.some
               THEN /\ pc' = [pc EXCEPT ![r] = "Failed"]
                    /\ result' = [result EXCEPT ![r] = Err("NoBlock", "", <<>>)]
               ELSE /\ pc' = [pc EXCEPT ![r] = "BuildingTx"]
                    /\ UNCHANGED result
    /\ UNCHANGED <<onlyTop, capacity, available, closed, held, cell, tracers,
                   setResults, vmResult, classified, trace, reads, released,
                   vmKeepsTracer, abandonedAt, blockReply, txReply,
                   sealed, askedBlocks, observed>>

\* BuildTx that hands the transaction to the VM without asking the limiter.
BuildTx_SkipsAdmission(r) ==
    /\ pc[r] = "BuildingTx"
    /\ \E ok \in BOOLEAN :
         IF ok
         THEN /\ pc' = [pc EXCEPT ![r] = "Executing"]
              /\ UNCHANGED result
         ELSE /\ pc' = [pc EXCEPT ![r] = "Failed"]
              /\ result' = [result EXCEPT ![r] = Err("SerializationError", "", <<>>)]
    /\ UNCHANGED <<onlyTop, conn, capacity, available, closed, held, cell, tracers,
                   setResults, vmResult, classified, trace, reads, released,
                   vmKeepsTracer, abandonedAt, blockReply, txReply,
                   sealed, askedBlocks, blockArgs, observed>>

\* BuildTx placed after the acquisition: a request whose transaction cannot
\* be built has taken a permit by then and fails with it.
BuildTx_AfterAcquire(r) ==
    /\ pc[r] = "BuildingTx"
    /\ \E ok \in BOOLEAN :
         IF ok
         THEN /\ pc' = [pc EXCEPT ![r] = "AcquiringSlot"]
              /\ UNCHANGED <<result, available, held>>
         ELSE /\ CanAcquire
              /\ available' = available - 1
              /\ held' = held \cup {r}
              /\ pc' = [pc EXCEPT ![r] = "Failed"]
              /\ result' = [result EXCEPT ![r] = Err("SerializationError", "", <<>>)]
    /\ UNCHANGED <<onlyTop, conn, capacity, closed, cell, tracers,
                   setResults, vmResult, classified, trace, reads, released,
                   vmKeepsTracer, abandonedAt, blockReply, txReply,
                   sealed, askedBlocks, blockArgs, observed>>

\* L2Tx::from_request, then the request suspends in acquire().
BuildTx(r) ==
    /\ pc[r] = "BuildingTx"
    /\ \E ok \in BOOLEAN :
         IF ok
         THEN /\ pc' = [pc EXCEPT ![r] = "AcquiringSlot"]
              /\ UNCHANGED result
         ELSE /\ pc' = [pc EXCEPT ![r] = "Failed"]
              /\ result' = [result EXCEPT ![r] = Err("SerializationError", "", <<>>)]
    /\ UNCHANGED <<onlyTop, conn, capacity, available, closed, held, cell, tracers,
                   setResults, vmResult, classified, trace, reads, released,
                   vmKeepsTracer, abandonedAt, blockReply, txReply,
                   sealed, askedBlocks, blockArgs, observed>>

\* AcquireSlot with the wait for a free permit left out: the handler starts
\* the VM whether or not the limiter had a permit to give.
AcquireSlot_NoWait(r) ==
    /\ pc[r] = "AcquiringSlot"
    /\ ~closed
    /\ available' = IF available > 0 THEN available - 1 ELSE available
    /\ held' = held \cup {r}
    /\ cell' = [cell EXCEPT ![r] =
                  [refs |-> IF onlyTop[r] THEN 1 ELSE 2, full |-> FALSE, value |-> <<>>]]
    /\ tracers' = [tracers EXCEPT ![r] =
                  IF onlyTop[r] THEN <<>> ELSE <<"CallTracer">>]
    /\ pc' = [pc EXCEPT ![r] = "Executing"]
    /\ UNCHANGED <<onlyTop, conn, capacity, closed, setResults, vmResult,
                   classified, trace, reads, released, result,
                   vmKeepsTracer, abandonedAt, blockReply, txReply,
                   sealed, askedBlocks, blockArgs, observed>>

\* AcquireSlot with the permit taken from the limiter but never handed to
\* the VM invocation (forgotten instead of moved into the call).
AcquireSlot_Leak(r) ==
    /\ pc[r] = "AcquiringSlot"
    /\ ~closed /\ available > 0
    /\ available' = available - 1
    /\ UNCHANGED held
    /\ cell' = [cell EXCEPT ![r] =
                  [refs |-> IF onlyTop[r] THEN 1 ELSE 2, full |-> FALSE, value |-> <<>>]]
    /\ tracers' = [tracers EXCEPT ![r] =
                  IF onlyTop[r] THEN <<>> ELSE <<"CallTracer">>]
    /\ pc' = [pc EXCEPT ![r] = "Executing"]
    /\ UNCHANGED <<onlyTop, conn, capacity, closed, setResults, vmResult,
                   classified, trace, reads, released, result,
                   vmKeepsTracer, abandonedAt, blockReply, txReply,
                   sealed, askedBlocks, blockArgs, observed>>

\* AcquireSlot with one capture cell for the whole namespace: the request
\* gets a handle on the cell the requests before it wrote to.
AcquireSlot_SharedCell(r) ==
    /\ pc[r] = "AcquiringSlot"
    /\ CanAcquire
    /\ available' = available - 1
    /\ held' = held \cup {r}
    /\ LET written == {q \in Reqs : cell[q].full}
           shared == IF written = {} THEN NoCell
                     ELSE cell[CHOOSE q \in written : TRUE]
       IN cell' = [cell EXCEPT ![r] =
                     [refs |-> IF onlyTop[r] THEN 1 ELSE 2,
                      full |-> shared.full, value |-> shared.value]]
    /\ tracers' = [tracers EXCEPT ![r] =
                  IF onlyTop[r] THEN <<>> ELSE <<"CallTracer">>]
    /\ pc' = [pc EXCEPT ![r] = "Executing"]
    /\ UNCHANGED <<onlyTop, conn, capacity, closed, setResults, vmResult,
                   classified, trace, reads, released, result,
                   vmKeepsTracer, abandonedAt, blockReply, txReply,
                   sealed, askedBlocks, blockArgs, observed>>

\* acquire() returns a permit; the handler creates the cell, builds the tracer
\* list and moves the permit into execute_tx_eth_call, where it suspends.
AcquireSlot(r) ==
    /\ pc[r] = "AcquiringSlot"
    /\ CanAcquire
    /\ available' = available - 1
    /\ held' = held \cup {r}
    /\ cell' = [cell EXCEPT ![r] =
                  [refs |-> IF onlyTop[r] THEN 1 ELSE 2, full |-> FALSE, value |-> <<>>]]
    /\ tracers' = [tracers EXCEPT ![r] =
                  IF onlyTop[r] THEN <<>> ELSE <<"CallTracer">>]
    /\ pc' = [pc EXCEPT ![r] = "Executing"]
    /\ UNCHANGED <<onlyTop, conn, capacity, closed, setResults, vmResult,
                   classified, trace, reads, released, result,
                   vmKeepsTracer, abandonedAt, blockReply, txReply,
                   sealed, askedBlocks, blockArgs, observed>>

\* AcquireClosed that blames the request: a closed limiter is reported as a
\* rejected submission.
AcquireClosed_RejectsSubmission(r) ==
    /\ pc[r] = "AcquiringSlot"
    /\ closed
    /\ pc' = [pc EXCEPT ![r] = "Failed"]
    /\ result' = [result EXCEPT ![r] =
                    Err("SubmitTransactionError", "limiter closed", <<>>)]
    /\ UNCHANGED <<onlyTop, conn, capacity, available, closed, held, cell, tracers,
                   setResults, vmResult, classified, trace, reads, released,
                   vmKeepsTracer, abandonedAt, blockReply, txReply,
                   sealed, askedBlocks, blockArgs, observed>>

\* acquire() returns None on a closed limiter: Web3Error::InternalError.
AcquireClosed(r) ==
    /\ pc[r] = "AcquiringSlot"
    /\ closed
    /\ pc' = [pc EXCEPT ![r] = "Failed"]
    /\ result' = [result EXCEPT ![r] = Err("InternalError", "", <<>>)]
    /\ UNCHANGED <<onlyTop, conn, capacity, available, closed, held, cell, tracers,
                   setResults, vmResult, classified, trace, reads, released,
                   vmKeepsTracer, abandonedAt, blockReply, txReply,
                   sealed, askedBlocks, blockArgs, observed>>

\* The attached CallTracer hands a call tree to the cell while the VM runs.
VmTracerWrite(r) ==
    /\ r \in held
    /\ Len(tracers[r]) > 0
    /\ Len(setResults[r]) < MaxWrites
    /\ LET k == Len(setResults[r]) + 1
           w == OnceCellSet(cell[r], NestedCallsOf(r, k))
       IN /\ cell' = [cell EXCEPT ![r] = w.cell]
          /\ setResults' = [setResults EXCEPT ![r] = Append(@, w.ok)]
    /\ UNCHANGED <<pc, onlyTop, conn, capacity, available, closed, held, tracers,
                   vmResult, classified, trace, reads, released, result,
                   vmKeepsTracer, abandonedAt, blockReply, txReply,
                   sealed, askedBlocks, blockArgs, observed>>

\* VmComplete with the permit kept: the VM invocation ends and the permit
\* moved into it is never dropped.
VmComplete_KeepsPermit(r) ==
    /\ pc[r] = "Executing"
    /\ r \in held
    /\ setResults' = [setResults EXCEPT ![r] = <<>>]
    /\ cell' = [cell EXCEPT ![r] =
                  IF Len(tracers[r]) > 0 /\ ~vmKeepsTracer THEN DropHandle(@) ELSE @]
    /\ \E res \in ExecutionResults :
         vmResult' = [vmResult EXCEPT ![r] = res]
    /\ pc' = [pc EXCEPT ![r] = "Classifying"]
    /\ UNCHANGED <<onlyTop, conn, capacity, available, closed, held, tracers,
                   classified, trace, reads, released, result,
                   vmKeepsTracer, abandonedAt, blockReply, txReply,
                   sealed, askedBlocks, blockArgs, observed>>

\* execute_tx_eth_call returns to the awaiting handler: the VM invocation
\* has ended, the permit moved into it is dropped, its tracers are dropped
\* (unless the VM layer keeps its handles), the handler has the result.
VmComplete(r) ==
    /\ pc[r] = "Executing"
    /\ r \in held
    /\ held' = held \ {r}
    /\ available' = available + 1
    /\ released' = [released EXCEPT ![r] = @ + 1]
    /\ setResults' = [setResults EXCEPT ![r] = <<>>]
    /\ cell' = [cell EXCEPT ![r] =
                  IF Len(tracers[r]) > 0 /\ ~vmKeepsTracer THEN DropHandle(@) ELSE @]
    /\ \E res \in ExecutionResults :
         vmResult' = [vmResult EXCEPT ![r] = res]
    /\ pc' = [pc EXCEPT ![r] = "Classifying"]
    /\ UNCHANGED <<onlyTop, conn, capacity, closed, tracers,
                   classified, trace, reads, result,
                   vmKeepsTracer, abandonedAt, blockReply, txReply,
                   sealed, askedBlocks, blockArgs, observed>>

\* VmCompleteDetached with the permit kept: the invocation of an abandoned
\* request ends without giving its permit back.
VmCompleteDetached_KeepsPermit(r) ==
    /\ pc[r] = "Abandoned"
    /\ r \in held
    /\ setResults' = [setResults EXCEPT ![r] = <<>>]
    /\ UNCHANGED <<pc, onlyTop, conn, capacity, available, closed, held, cell,
                   tracers, vmResult, classified, trace, reads, released, result,
                   vmKeepsTracer, abandonedAt, blockReply, txReply,
                   sealed, askedBlocks, blockArgs, observed>>

\* The VM invocation of an abandoned request ends: nobody awaits its result,
\* the permit it was given is dropped with it.
VmCompleteDetached(r) ==
    /\ pc[r] = "Abandoned"
    /\ r \in held
    /\ held' = held \ {r}
    /\ available' = available + 1
    /\ released' = [released EXCEPT ![r] = @ + 1]
    /\ setResults' = [setResults EXCEPT ![r] = <<>>]
    /\ cell' = [cell EXCEPT ![r] =
                  IF Len(tracers[r]) > 0 /\ ~vmKeepsTracer THEN DropHandle(@) ELSE @]
    /\ UNCHANGED <<pc, onlyTop, conn, capacity, closed, tracers, vmResult,
                   classified, trace, reads, result,
                   vmKeepsTracer, abandonedAt, blockReply, txReply,
                   sealed, askedBlocks, blockArgs, observed>>

\* ClassifyOutcome with Halt handled like Revert: a response whose revert
\* reason is the halt reason.
ClassifyOutcome_HaltAsRevert(res) ==
    CASE res.tag = "Success" ->
           [halt |-> FALSE, output |-> res.output, revert_reason |-> None]
      [] res.tag = "Revert" ->
           [halt |-> FALSE, output |-> <<>>,
            revert_reason |-> Some(Display(res.revert))]
      [] res.tag = "Halt" ->
           [halt |-> FALSE, output |-> <<>>,
            revert_reason |-> Some(Display(res.reason))]

\* ClassifyOutcome with the reverted bytes kept as the response output.
ClassifyOutcome_RevertKeepsOutput(res) ==
    CASE res.tag = "Success" ->
           [halt |-> FALSE, output |-> res.output, revert_reason |-> None]
      [] res.tag = "Revert" ->
           [halt |-> FALSE, output |-> res.revert.data,
            revert_reason |-> Some(Display(res.revert))]
      [] res.tag = "Halt" ->
           [halt |-> TRUE,
            error |-> Err("SubmitTransactionError", Display(res.reason), <<>>)]

\* match result.result { Success, Revert, Halt }: the (output, revert_reason)
\* of a response, or the error the request returns.
ClassifyOutcome(res) ==
    CASE res.tag = "Success" ->
           [halt |-> FALSE, output |-> res.output, revert_reason |-> None]
      [] res.tag = "Revert" ->
           [halt |-> FALSE, output |-> <<>>,
            revert_reason |-> Some(Display(res.revert))]
      [] res.tag = "Halt" ->
           [halt |-> TRUE,
            error |-> Err("SubmitTransactionError", Display(res.reason), <<>>)]

\* The handler classifies the VM result; on Halt it returns the error and
\* its locals (its handle on the cell among them) are dropped.
Classify(r) ==
    /\ pc[r] = "Classifying"
    /\ LET c == ClassifyOutcome(vmResult[r]) IN
         IF c.halt
         THEN /\ result' = [result EXCEPT ![r] = c.error]
              /\ pc' = [pc EXCEPT ![r] = "Failed"]
              /\ cell' = [cell EXCEPT ![r] = DropHandle(@)]
              /\ UNCHANGED classified
         ELSE /\ classified' = [classified EXCEPT ![r] =
                     [set |-> TRUE, output |-> c.output,
                      revert_reason |-> c.revert_reason]]
              /\ pc' = [pc EXCEPT ![r] = "ExtractingTrace"]
              /\ UNCHANGED <<result, cell>>
    /\ UNCHANGED <<onlyTop, conn, capacity, available, closed, held, tracers,
                   setResults, vmResult, trace, reads, released,
                   vmKeepsTracer, abandonedAt, blockReply, txReply,
                   sealed, askedBlocks, blockArgs, observed>>

\* TryUnwrapOk without the ownership check (the value is taken through the
\* shared handle).
TryUnwrapOk_Unchecked(c) == TRUE

\* Arc::try_unwrap succeeds for the only handle on the cell.
TryUnwrapOk(c) == c.refs = 1

\* OnceCell::take().unwrap_or_default().
TakeOrDefault(c) == IF c.full THEN c.value ELSE <<>>

\* ExtractTrace moved before the await of the VM call: the cell is read
\* while the invocation is still running.
ExtractTrace_Early(r) ==
    /\ pc[r] = "Executing"
    /\ trace' = [trace EXCEPT ![r] = IF cell[r].full THEN cell[r].value ELSE <<>>]
    /\ reads' = [reads EXCEPT ![r] = @ + 1]
    /\ pc' = [pc EXCEPT ![r] = "Assembling"]
    /\ UNCHANGED <<onlyTop, conn, capacity, available, closed, held, cell, tracers,
                   setResults, vmResult, classified, released, result,
                   vmKeepsTracer, abandonedAt, blockReply, txReply,
                   sealed, askedBlocks, blockArgs, observed>>

\* Arc::try_unwrap(call_tracer_result).unwrap().take().unwrap_or_default():
\* the unwrap panics when another handle on the cell is alive.
ExtractTrace(r) ==
    /\ pc[r] = "ExtractingTrace"
    /\ IF TryUnwrapOk(cell[r])
       THEN /\ trace' = [trace EXCEPT ![r] = TakeOrDefault(cell[r])]
            /\ reads' = [reads EXCEPT ![r] = @ + 1]
            /\ cell' = [cell EXCEPT ![r] = NoCell]
            /\ pc' = [pc EXCEPT ![r] = "Assembling"]
            /\ UNCHANGED result
       ELSE /\ pc' = [pc EXCEPT ![r] = "Failed"]
            /\ result' = [result EXCEPT ![r] = Panic]
            /\ cell' = [cell EXCEPT ![r] = DropHandle(@)]
            /\ UNCHANGED <<trace, reads>>
    /\ UNCHANGED <<onlyTop, conn, capacity, available, closed, held, tracers,
                   setResults, vmResult, classified, released,
                   vmKeepsTracer, abandonedAt, blockReply, txReply,
                   sealed, askedBlocks, blockArgs, observed>>

\* Assemble with the staleness taken against the head itself.
Assemble_ObservesHead(r) ==
    /\ pc[r] = "Assembling"
    /\ LET tx == TxOf(r)
           call == NewHighLevel(tx.gas_limit, GasUsedOf(r), tx.value, tx.calldata,
                                classified[r].output, classified[r].revert_reason,
                                trace[r])
       IN result' = [result EXCEPT ![r] = Ok(ToDebugCall(call))]
    /\ observed' = [observed EXCEPT ![r] = Some(Diff(sealed, sealed))]
    /\ pc' = [pc EXCEPT ![r] = "Done"]
    /\ UNCHANGED <<onlyTop, conn, capacity, available, closed, held, cell, tracers,
                   setResults, vmResult, classified, trace, reads, released,
                   vmKeepsTracer, abandonedAt, blockReply, txReply,
                   sealed, askedBlocks, blockArgs>>

\* Call::new_high_level(...), the staleness observation
\* (diff_with_block_args(&block_args) handed to method_latency.observe),
\* Ok(call.into()).
Assemble(r) ==
    /\ pc[r] = "Assembling"
    /\ LET tx == TxOf(r)
           call == NewHighLevel(tx.gas_limit, GasUsedOf(r), tx.value, tx.calldata,
                                classified[r].output, classified[r].revert_reason,
                                trace[r])
       IN result' = [result EXCEPT ![r] = Ok(ToDebugCall(call))]
    /\ LET block_diff == DiffWithBlockArgs(sealed, blockArgs[r].value.val)
       IN observed' = [observed EXCEPT ![r] = Some(block_diff)]
    /\ pc' = [pc EXCEPT ![r] = "Done"]
    /\ UNCHANGED <<onlyTop, conn, capacity, available, closed, held, cell, tracers,
                   setResults, vmResult, classified, trace, reads, released,
                   vmKeepsTracer, abandonedAt, blockReply, txReply,
                   sealed, askedBlocks, blockArgs>>

\* Cancel with a wait that is not abandonable: a request dropped while it
\* waits for a permit still takes one when one is free, and nobody owns it.
Cancel_TakesPermit(r) ==
    /\ pc[r] \in {"ResolvingBlock", "AcquiringSlot", "Executing"}
    /\ pc' = [pc EXCEPT ![r] = "Abandoned"]
    /\ abandonedAt' = [abandonedAt EXCEPT ![r] = pc[r]]
    /\ conn' = [conn EXCEPT ![r] = FALSE]
    /\ cell' = [cell EXCEPT ![r] = IF pc[r] = "Executing" THEN DropHandle(@) ELSE @]
    /\ available' = IF pc[r] = "AcquiringSlot" /\ available > 0
                    THEN available - 1 ELSE available
    /\ UNCHANGED <<onlyTop, capacity, closed, held, tracers, setResults,
                   vmResult, classified, trace, reads, released, result,
                   vmKeepsTracer, blockReply, txReply,
                   sealed, askedBlocks, blockArgs, observed>>

\* The request future is dropped at one of its awaits.  Its locals (the
\* connection, its handle on the cell) are dropped; a VM invocation already
\* started keeps running with the permit it was given.
Cancel(r) ==
    /\ pc[r] \in {"ResolvingBlock", "AcquiringSlot", "Executing"}
    /\ pc' = [pc EXCEPT ![r] = "Abandoned"]
    /\ abandonedAt' = [abandonedAt EXCEPT ![r] = pc[r]]
    /\ conn' = [conn EXCEPT ![r] = FALSE]
    /\ cell' = [cell EXCEPT ![r] = IF pc[r] = "Executing" THEN DropHandle(@) ELSE @]
    /\ UNCHANGED <<onlyTop, capacity, available, closed, held, tracers, setResults,
                   vmResult, classified, trace, reads, released, result,
                   vmKeepsTracer, blockReply, txReply,
                   sealed, askedBlocks, blockArgs, observed>>

\* The node shuts the limiter down (VmConcurrencyBarrier::close).
ClosePool ==
    /\ ~closed
    /\ closed' = TRUE
    /\ UNCHANGED <<pc, onlyTop, conn, capacity, available, held, cell, tracers,
                   setResults, vmResult, classified, trace, reads, released, result,
                   vmKeepsTracer, abandonedAt, blockReply, txReply,
                   sealed, askedBlocks, blockArgs, observed>>

\* ------------------------------------------------------- persisted traces
\* Storage, as the replay handlers see it: the sealed blocks are resolvable
\* and block b holds b persisted traces; transactions 1..MaxTx have a
\* persisted trace.  Every persisted trace has nested calls.
BlockIds == 1..(MaxBlock + 1)
TxHashes == 1..(MaxTx + 1)

PersistedCall(b, i) ==
    MkCall(100 * b + i, i, b, <<b, i>>, <<i>>, None, NestedCallsOf(b, i))

\* resolve_block: the block number, or Web3Error::NoBlock.
ResolveBlockId(block_id) ==
    IF block_id \in 1..sealed THEN Ok(block_id) ELSE Err("NoBlock", "", <<>>)

\* blocks_web3_dal().get_trace_for_miniblock(block_number), in storage order.
TraceForMiniblock(block_number) ==
    [i \in 1..block_number |-> PersistedCall(block_number, i)]

\* transactions_dal().get_call_trace(tx_hash).
CallTraceOf(tx_hash) ==
    IF tx_hash \in 1..MaxTx THEN Some(PersistedCall(tx_hash, 1)) ELSE None

\* ReplayCall without the truncation.
ReplayCall_NoTruncate(call_trace, only_top_call) == ToDebugCall(call_trace)

\* The closure both replay handlers map over a persisted trace.
ReplayCall(call_trace, only_top_call) ==
    LET res == ToDebugCall(call_trace)
    IN IF only_top_call THEN [res EXCEPT !.calls = <<>>] ELSE res

\* TraceBlock that returns the traces of the block last first.
TraceBlock_Reversed ==
    /\ ~blockReply.called
    /\ \E block_id \in BlockIds, options \in TracerOptions, storage_ok \in BOOLEAN :
         LET only_top_call == OnlyTopCall(options)
             block_number == ResolveBlockId(block_id)
             fetched == storage_ok /\ block_number.kind = "Ok"
             res == IF ~storage_ok THEN Err("InternalError", "", <<>>)
                    ELSE IF block_number.kind = "Err" THEN block_number
                    ELSE LET call_trace == TraceForMiniblock(block_number.value)
                             n == Len(call_trace)
                         IN Ok([i \in DOMAIN call_trace |->
                                  [result |-> ReplayCall(call_trace[n + 1 - i],
                                                         only_top_call)]])
             block_diff == IF fetched THEN Some(Diff(sealed, block_number.value))
                           ELSE None
         IN blockReply' = [called |-> TRUE, block_id |-> block_id,
                           only_top_call |-> only_top_call,
                           storage_ok |-> storage_ok, fetched |-> fetched,
                           res |-> res, observed |-> block_diff]
    /\ UNCHANGED <<callVars, txReply>>

\* debug_trace_block_impl: storage access, resolve_block, the fetch of the
\* block's traces, the conversion of each, the staleness observation.
\* fetched records whether get_trace_for_miniblock was called, observed what
\* was handed to method_latency.observe.  The handler keeps no state of its
\* own, so one call of it in a behaviour stands for every call.
TraceBlock ==
    /\ ~blockReply.called
    /\ \E block_id \in BlockIds, options \in TracerOptions, storage_ok \in BOOLEAN :
         LET only_top_call == OnlyTopCall(options)
             block_number == ResolveBlockId(block_id)
             fetched == storage_ok /\ block_number.kind = "Ok"
             res == IF ~storage_ok THEN Err("InternalError", "", <<>>)
                    ELSE IF block_number.kind = "Err" THEN block_number
                    ELSE LET call_trace == TraceForMiniblock(block_number.value)
                         IN Ok([i \in DOMAIN call_trace |->
                                  [result |-> ReplayCall(call_trace[i], only_top_call)]])
             block_diff == IF fetched THEN Some(Diff(sealed, block_number.value))
                           ELSE None
         IN blockReply' = [called |-> TRUE, block_id |-> block_id,
                           only_top_call |-> only_top_call,
                           storage_ok |-> storage_ok, fetched |-> fetched,
                           res |-> res, observed |-> block_diff]
    /\ UNCHANGED <<callVars, txReply>>

\* TraceTransaction that reports a transaction without a persisted trace as
\* an error.
TraceTransaction_AbsentIsError ==
    /\ ~txReply.called
    /\ \E tx_hash \in TxHashes, options \in TracerOptions, storage_ok \in BOOLEAN :
         LET only_top_call == OnlyTopCall(options)
             call_trace == CallTraceOf(tx_hash)
             res == IF ~storage_ok THEN Err("InternalError", "", <<>>)
                    ELSE IF call_trace.some
                    THEN Ok(Some(ReplayCall(call_trace.val, only_top_call)))
                    ELSE Err("NoTrace", "", <<>>)
         IN txReply' = [called |-> TRUE, tx_hash |-> tx_hash,
                        only_top_call |-> only_top_call,
                        storage_ok |-> storage_ok, res |-> res]
    /\ UNCHANGED <<callVars, blockReply>>

\* debug_trace_transaction_impl: storage access, get_call_trace, the
\* conversion of the trace if there is one.  One call in a behaviour, as for
\* TraceBlock.
TraceTransaction ==
    /\ ~txReply.called
    /\ \E tx_hash \in TxHashes, options \in TracerOptions, storage_ok \in BOOLEAN :
         LET only_top_call == OnlyTopCall(options)
             call_trace == CallTraceOf(tx_hash)
             res == IF ~storage_ok THEN Err("InternalError", "", <<>>)
                    ELSE Ok(IF call_trace.some
                            THEN Some(ReplayCall(call_trace.val, only_top_call))
                            ELSE None)
         IN txReply' = [called |-> TRUE, tx_hash |-> tx_hash,
                        only_top_call |-> only_top_call,
                        storage_ok |-> storage_ok, res |-> res]
    /\ UNCHANGED <<callVars, blockReply>>

\* ------------------------------------------------------- specifications
Step(r) ==
    \/ Start(r)
    \/ OpenConnection(r)
    \/ ResolveBlock(r)
    \/ BuildTx(r)
    \/ AcquireSlot(r)
    \/ AcquireClosed(r)
    \/ VmTracerWrite(r)
    \/ VmComplete(r)
    \/ VmCompleteDetached(r)
    \/ Classify(r)
    \/ ExtractTrace(r)
    \/ Assemble(r)
    \/ Cancel(r)

\* Concurrent trace-by-call requests contending for the limiter.
Next ==
    \/ \E r \in Reqs : Step(r)
    \/ ClosePool

Spec == Init /\ [][Next]_vars

\* The three handlers side by side: the replay handlers and one
\* trace-by-call request.
HandlersNext ==
    \/ TraceBlock
    \/ TraceTransaction
    \/ Step(1)
    \/ ClosePool

HandlersSpec == HandlersInit /\ [][HandlersNext]_vars

\* The scheduling the runtime provides: a started VM invocation runs to
\* completion, and a handler that can continue is polled again.  Cancellation
\* and shutdown stay optional.  The requests that run are 1..NumLiveReqs.
LiveReqs == 1..NumLiveReqs

Progress(r) ==
    \/ OpenConnection(r)
    \/ ResolveBlock(r)
    \/ BuildTx(r)
    \/ AcquireClosed(r)
    \/ VmComplete(r)
    \/ VmCompleteDetached(r)
    \/ Classify(r)
    \/ ExtractTrace(r)
    \/ Assemble(r)

LiveNext ==
    \/ \E r \in LiveReqs : Step(r)
    \/ ClosePool

LiveSpec ==
    /\ Init
    /\ [][LiveNext]_vars
    /\ \A r \in LiveReqs : WF_vars(Progress(r))

\* Requests that nobody abandons, on a limiter that nobody closes, with the
\* VM invocation as the limiter sees it: it starts and it ends.
FairStep(r) ==
    \/ Start(r)
    \/ OpenConnection(r)
    \/ ResolveBlock(r)
    \/ BuildTx(r)
    \/ AcquireSlot(r)
    \/ VmComplete(r)
    \/ Classify(r)
    \/ ExtractTrace(r)
    \/ Assemble(r)

FairNext == \E r \in Reqs : FairStep(r)

\* The head is block MaxBlock, the requests name no block, and the VM layer
\* drops its tracers when the call returns.
FairInit ==
    /\ InitCommon
    /\ sealed = MaxBlock
    /\ askedBlocks = {None}
    /\ ~vmKeepsTracer

\* A free permit of an open limiter goes to one of the requests waiting for
\* it.
Admission == \E r \in Reqs : AcquireSlot(r)

\* The scheduling of LiveSpec for every request, with the limiter handing a
\* free permit to some waiting request; which one is left open.
FairSpec ==
    /\ FairInit
    /\ [][FairNext]_vars
    /\ \A r \in Reqs : WF_vars(Progress(r))
    /\ WF_vars(Admission)

\* ------------------------------------------------------------ properties
Executing == {r \in Reqs : pc[r] = "Executing"}
Terminal == {"Done", "Failed", "Abandoned"}
Quiescent == \A r \in Reqs : pc[r] \in Terminal /\ r \notin held

\* C1: with a limiter of capacity N, at most N requests are in Executing (each
\* of them inside a VM invocation that holds a permit), so with N = 1 no two
\* requests execute at once; and a request waiting in AcquiringSlot while all
\* N permits are held does not enter Executing in that step: it waits for a
\* release.
C1_ExecutingBounded ==
    /\ [](/\ Cardinality(Executing) <= capacity
          /\ Cardinality(held) <= capacity
          /\ Executing \subseteq held
          /\ (capacity = 1 =>
                \A r1, r2 \in Executing : r1 = r2))
    /\ [][\A r \in Reqs :
            (pc[r] = "AcquiringSlot" /\ Cardinality(held) = capacity)
                => pc'[r] # "Executing"]_vars

\* C1 witness: every permit is held by an executing request while another
\* request waits in AcquiringSlot.
C1_Witness ==
    \E r1, r2 \in Reqs :
        /\ r1 # r2
        /\ pc[r1] = "Executing"
        /\ pc[r2] = "AcquiringSlot"
        /\ Cardinality(held) = capacity
        /\ available = 0

\* C2: permits are conserved (available + held = capacity in every state), a
\* permit is released at most once, it is still unreleased while its VM
\* invocation runs, and once the request has left Executing - with Success,
\* Revert or Halt - it has been released exactly once.
C2_PermitConservation ==
    /\ available + Cardinality(held) = capacity
    /\ \A r \in Reqs :
         /\ released[r] <= 1
         /\ (r \in held => released[r] = 0)
         /\ (vmResult[r].tag \in {"Success", "Revert", "Halt"}
               => released[r] = 1 /\ r \notin held)
         /\ (pc[r] \in {"Classifying", "ExtractingTrace", "Assembling", "Done"}
               => vmResult[r].tag \in {"Success", "Revert", "Halt"})

\* C2 witness: with one permit, a request halted and failed, its permit was
\* released once, and another request now holds the permit.
C2_Witness ==
    \E r1, r2 \in Reqs :
        /\ capacity = 1
        /\ vmResult[r1].tag = "Halt"
        /\ pc[r1] = "Failed"
        /\ released[r1] = 1
        /\ r2 \in held
        /\ pc[r2] = "Executing"

\* C3: every held permit is eventually returned to the limiter, also when
\* the request that acquired it was abandoned during its VM invocation
\* (given that every VM invocation ends).
C3_PermitEventuallyReleased ==
    \A r \in Reqs : (r \in held) ~> (r \notin held)

\* C3 witness: a request abandoned in Executing whose permit has been
\* released.
C3_Witness ==
    \E r \in Reqs :
        /\ abandonedAt[r] = "Executing"
        /\ released[r] = 1
        /\ r \notin held
        /\ available = capacity

\* C4: a request abandoned while it waits in AcquiringSlot never holds a
\* permit, and once every request has finished all permits are back.
C4_AbandonedWaitLeaksNothing ==
    /\ \A r \in Reqs :
         abandonedAt[r] = "AcquiringSlot" => (r \notin held /\ released[r] = 0)
    /\ (Quiescent => available = capacity)

\* C4 witness: a request was abandoned in AcquiringSlot, another one ran to
\* Done, and nothing is running any more.
C4_Witness ==
    /\ Quiescent
    /\ \E r1, r2 \in Reqs :
         /\ abandonedAt[r1] = "AcquiringSlot"
         /\ pc[r2] = "Done"

\* C5: a Halt never yields a response: the request fails with
\* SubmitTransactionError carrying the halt reason's text and an empty data
\* list, and its capture cell is never read.
C5_HaltIsFatal ==
    \A r \in Reqs :
        vmResult[r].tag = "Halt" =>
            /\ pc[r] \in {"Classifying", "Failed"}
            /\ result[r].kind # "Ok"
            /\ (pc[r] = "Failed" =>
                  result[r] = Err("SubmitTransactionError",
                                  vmResult[r].reason.msg, <<>>))
            /\ reads[r] = 0
            /\ trace[r] = <<>>
            /\ ~classified[r].set

\* C5 witness: a request with a tracer attached failed on a Halt.
C5_Witness ==
    \E r \in Reqs :
        /\ vmResult[r].tag = "Halt"
        /\ pc[r] = "Failed"
        /\ ~onlyTop[r]
        /\ result[r].kind = "Err"

\* C6: a response carries (output, none) for Success{output} and
\* (empty, Some(text of the revert reason)) for Revert; a request whose VM
\* outcome is not Halt never returns an error, and a finished one has a
\* response.
C6_OutcomeMapping ==
    \A r \in Reqs :
        /\ (result[r].kind = "Ok" =>
              /\ vmResult[r].tag \in {"Success", "Revert"}
              /\ (vmResult[r].tag = "Success" =>
                    /\ result[r].value.output = vmResult[r].output
                    /\ result[r].value.revertReason = None)
              /\ (vmResult[r].tag = "Revert" =>
                    /\ result[r].value.output = <<>>
                    /\ result[r].value.revertReason = Some(vmResult[r].revert.msg)))
        /\ (vmResult[r].tag \in {"Success", "Revert"} =>
              /\ result[r].kind # "Err"
              /\ (pc[r] = "Done" => result[r].kind = "Ok"))

\* C6 witness: one request answered a Revert whose reason carries bytes,
\* another one a Success.
C6_Witness ==
    \E r1, r2 \in Reqs :
        /\ pc[r1] = "Done" /\ vmResult[r1].tag = "Revert"
        /\ vmResult[r1].revert.data # <<>>
        /\ result[r1].kind = "Ok"
        /\ pc[r2] = "Done" /\ vmResult[r2].tag = "Success"
        /\ result[r2].kind = "Ok"

\* C7: during a VM invocation only the first write to the capture cell is
\* accepted; every later one is refused and the cell keeps the first value.
C7_WriteOnce ==
    \A r \in Reqs :
        /\ Cardinality({k \in DOMAIN setResults[r] : setResults[r][k]}) <= 1
        /\ (setResults[r] # <<>> =>
              /\ setResults[r][1]
              /\ cell[r].full
              /\ cell[r].value = NestedCallsOf(r, 1))
        /\ \A k \in DOMAIN setResults[r] : k > 1 => ~setResults[r][k]

\* C7 witness: a second write was attempted on a full cell.
C7_Witness ==
    \E r \in Reqs :
        /\ Len(setResults[r]) >= 2
        /\ cell[r].full

\* C8: the cell of a request is read at most once, and only after its VM
\* invocation has returned: a request that has read is past ExtractingTrace,
\* has its VM result and no running invocation.
C8_ReadAfterVmReturns ==
    \A r \in Reqs :
        /\ reads[r] <= 1
        /\ (reads[r] = 1 =>
              /\ pc[r] \in {"Assembling", "Done"}
              /\ vmResult[r].tag \in {"Success", "Revert"}
              /\ r \notin held)
        /\ (pc[r] \in {"Idle", "ResolvingBlock", "BuildingTx", "AcquiringSlot",
                       "Executing", "Classifying", "ExtractingTrace"}
              => reads[r] = 0)

\* C8 witness: a request has read a written cell.
C8_Witness ==
    \E r \in Reqs :
        /\ reads[r] = 1
        /\ trace[r] # <<>>

\* C9: the step out of ExtractingTrace depends on ownership of the cell: with
\* another handle alive the request traps and returns no trace; as the only
\* owner it gets the written call tree, or the empty default if nothing was
\* written.
C9_SoleOwnerExtraction ==
    [][\A r \in Reqs :
         (pc[r] = "ExtractingTrace" /\ pc'[r] # "ExtractingTrace") =>
            IF cell[r].refs = 1
            THEN /\ pc'[r] = "Assembling"
                 /\ trace'[r] = (IF cell[r].full THEN cell[r].value ELSE <<>>)
                 /\ result'[r] = NoResult
            ELSE /\ pc'[r] = "Failed"
                 /\ result'[r] = Panic
                 /\ trace'[r] = <<>>
                 /\ reads'[r] = 0]_vars

\* C9 witness: the VM layer kept its handle: a request with a tracer
\* trapped at extraction, and a request without one extracted the default.
C9_Witness ==
    \E r1, r2 \in Reqs :
        /\ result[r1] = Panic
        /\ pc[r1] = "Failed"
        /\ pc[r2] = "Assembling"
        /\ reads[r2] = 1
        /\ trace[r2] = <<>>

\* C10: with only_top_call the nested calls of every returned trace are
\* empty in debug_trace_block, debug_trace_transaction and debug_trace_call,
\* and debug_trace_call passes an empty tracer list to the VM (so the cell is
\* never written).
C10_OnlyTopCall ==
    /\ (blockReply.called /\ blockReply.only_top_call /\ blockReply.res.kind = "Ok") =>
          \A i \in DOMAIN blockReply.res.value :
              blockReply.res.value[i].result.calls = <<>>
    /\ (txReply.called /\ txReply.only_top_call /\ txReply.res.kind = "Ok"
          /\ txReply.res.value.some) =>
          txReply.res.value.val.calls = <<>>
    /\ \A r \in Reqs :
          onlyTop[r] =>
              /\ tracers[r] = <<>>
              /\ ~cell[r].full
              /\ (result[r].kind = "Ok" => result[r].value.calls = <<>>)

\* C10 witness: all three handlers answered an only_top_call request; the
\* persisted traces replayed had nested calls.
C10_Witness ==
    /\ blockReply.called /\ blockReply.only_top_call /\ blockReply.res.kind = "Ok"
    /\ Len(blockReply.res.value) >= 2
    /\ \A i \in DOMAIN blockReply.res.value :
          TraceForMiniblock(blockReply.block_id)[i].calls # <<>>
    /\ txReply.called /\ txReply.only_top_call /\ txReply.res.kind = "Ok"
    /\ txReply.res.value.some
    /\ CallTraceOf(txReply.tx_hash).val.calls # <<>>
    /\ onlyTop[1] /\ pc[1] = "Done" /\ result[1].kind = "Ok"

\* ------------------------------------------------------------ the phases
\* The phases of debug_trace_call_impl in the order of its code.
PhaseOrder ==
    << "ResolvingBlock", "BuildingTx", "AcquiringSlot", "Executing",
       "Classifying", "ExtractingTrace", "Assembling", "Done" >>

Advances == { <<PhaseOrder[i], PhaseOrder[i + 1]>> : i \in 1..(Len(PhaseOrder) - 1) }

\* The phases with a return of Err (or the trap of ExtractingTrace) in them.
FailingPhases ==
    {"ResolvingBlock", "BuildingTx", "AcquiringSlot", "Classifying", "ExtractingTrace"}

\* The phases that end in an await, where the future of the request can be
\* dropped.
AwaitingPhases == {"ResolvingBlock", "AcquiringSlot", "Executing"}

PhaseSteps ==
    {<<"Idle", "ResolvingBlock">>}
    \cup Advances
    \cup (FailingPhases \X {"Failed"})
    \cup (AwaitingPhases \X {"Abandoned"})

\* A step of request r that ends in Failed.
FailStep(r) == Step(r) /\ pc'[r] = "Failed"

\* What makes the phase request r is in fail, where the code of the phase
\* has a failing path: storage may refuse at any time, a request may be
\* malformed, the limiter may be closed, the VM may have halted, the cell may
\* have a second owner.
ErrorCause(r) ==
    CASE pc[r] = "AcquiringSlot" -> closed
      [] pc[r] = "Classifying" -> vmResult[r].tag = "Halt"
      [] pc[r] = "ExtractingTrace" -> cell[r].refs # 1
      [] OTHER -> TRUE

VmNeverInvoked(r) ==
    /\ r \notin held
    /\ released[r] = 0
    /\ cell[r] = NoCell
    /\ tracers[r] = <<>>
    /\ setResults[r] = <<>>
    /\ vmResult[r] = NoVmResult

\* C12: a block reference that resolves to no block makes debug_trace_call
\* fail with NoBlock before the limiter and the VM are touched, and makes
\* debug_trace_block fail with NoBlock before any trace is fetched: nothing
\* is returned and no staleness is observed.
C12_NoBlock ==
    /\ \A r \in Reqs :
          blockArgs[r] = Ok(None) =>
              /\ pc[r] = "Failed"
              /\ result[r] = Err("NoBlock", "", <<>>)
              /\ VmNeverInvoked(r)
              /\ ~observed[r].some
    /\ (blockReply.called /\ blockReply.storage_ok
          /\ blockReply.block_id \notin 1..sealed) =>
          /\ blockReply.res = Err("NoBlock", "", <<>>)
          /\ ~blockReply.fetched
          /\ ~blockReply.observed.some

\* C12 witness: both handlers were asked for the block after the head and
\* storage answered both.
C12_Witness ==
    /\ blockArgs[1] = Ok(None)
    /\ result[1].kind = "Err" /\ result[1].error = "NoBlock"
    /\ blockReply.called /\ blockReply.storage_ok
    /\ blockReply.block_id = sealed + 1
    /\ blockReply.res.kind = "Err" /\ blockReply.res.error = "NoBlock"

\* C13: once storage is reached, debug_trace_transaction answers Ok for
\* every transaction: None when no trace is persisted for it, and otherwise
\* the persisted trace, field for field, with the nested calls emptied
\* exactly when only_top_call is set.
C13_AbsentTraceIsNone ==
    (txReply.called /\ txReply.storage_ok) =>
        LET call_trace == CallTraceOf(txReply.tx_hash)
        IN IF call_trace.some
           THEN LET whole == ToDebugCall(call_trace.val)
                IN txReply.res =
                     Ok(Some(IF txReply.only_top_call
                             THEN [whole EXCEPT !.calls = <<>>]
                             ELSE whole))
           ELSE txReply.res = Ok(None)

\* C13 witness: the transaction asked for has no persisted trace, storage
\* answered, and the reply is Ok(None).
C13_Witness ==
    /\ txReply.called /\ txReply.storage_ok
    /\ ~CallTraceOf(txReply.tx_hash).some
    /\ txReply.res.kind = "Ok" /\ ~txReply.res.value.some

\* C14: a request that leaves AcquiringSlot while the limiter is closed
\* fails with the internal error (unless its future was dropped), without a
\* permit and without a VM invocation; the permits of the others are as
\* they were.
C14_ClosedPoolIsInternalError ==
    [][\A r \in Reqs :
         (pc[r] = "AcquiringSlot" /\ closed /\ pc'[r] # "AcquiringSlot") =>
            /\ \/ pc'[r] = "Abandoned"
               \/ /\ pc'[r] = "Failed"
                  /\ result'[r] = Err("InternalError", "", <<>>)
            /\ VmNeverInvoked(r)'
            /\ available' = available
            /\ held' = held]_vars

\* C14 witness: the limiter was closed while a request waited for a permit
\* that another request held; the waiting request failed with the internal
\* error.
C14_Witness ==
    \E r1, r2 \in Reqs :
        /\ closed
        /\ pc[r1] = "Failed" /\ blockArgs[r1].kind = "Ok"
        /\ result[r1] = Err("InternalError", "", <<>>)
        /\ VmNeverInvoked(r1)
        /\ r2 \in held /\ pc[r2] = "Executing"

\* C15: what a successful request hands to the latency metric is the number
\* of the head minus the number of the block it was evaluated against: for
\* debug_trace_call the resolved number of the block arguments the VM ran
\* with, for debug_trace_block the resolved block number.  MaxLag blocks
\* behind the head give MaxLag, the head itself gives 0.
C15_Staleness ==
    /\ \A r \in Reqs :
          pc[r] = "Done" =>
              LET evaluated == blockArgs[r].value.val.resolved_block_number
              IN /\ observed[r] = Some(sealed - evaluated)
                 /\ (sealed = evaluated + MaxLag) => observed[r] = Some(MaxLag)
                 /\ (sealed = evaluated) => observed[r] = Some(0)
    /\ (blockReply.called /\ blockReply.res.kind = "Ok") =>
          /\ blockReply.observed = Some(sealed - blockReply.block_id)
          /\ (sealed = blockReply.block_id + MaxLag) =>
                blockReply.observed = Some(MaxLag)
          /\ (sealed = blockReply.block_id) => blockReply.observed = Some(0)

\* C15 witness: debug_trace_block replayed the block MaxLag blocks behind
\* the head and observed MaxLag; debug_trace_call ran against the head,
\* named by its number, and observed 0.
C15_Witness ==
    /\ blockReply.called /\ blockReply.res.kind = "Ok"
    /\ sealed = blockReply.block_id + MaxLag
    /\ blockReply.observed = Some(MaxLag)
    /\ pc[1] = "Done"
    /\ blockArgs[1].value.val.block_id = Number(sealed)
    /\ observed[1] = Some(0)

\* C16: debug_trace_block answers with one result per persisted trace of
\* the resolved block, the i-th result made from the i-th trace in storage
\* order: every root field is the one of that trace, and the nested calls
\* are the trace's own, or empty under only_top_call.
C16_BlockTracesInOrder ==
    (blockReply.called /\ blockReply.res.kind = "Ok") =>
        LET stored == TraceForMiniblock(blockReply.block_id)
            results == blockReply.res.value
        IN /\ Len(results) = Len(stored)
           /\ \A i \in 1..Len(stored) :
                 LET whole == ToDebugCall(stored[i])
                     got == results[i].result
                 IN /\ DOMAIN results[i] = {"result"}
                    /\ got.type = whole.type
                    /\ got.gas = whole.gas
                    /\ got.gasUsed = whole.gasUsed
                    /\ got.value = whole.value
                    /\ got.input = whole.input
                    /\ got.output = whole.output
                    /\ got.revertReason = whole.revertReason
                    /\ got.calls = (IF blockReply.only_top_call THEN <<>>
                                    ELSE whole.calls)

\* C16 witness: a block with several different persisted traces, all with
\* nested calls, was replayed under only_top_call.
C16_Witness ==
    /\ blockReply.called /\ blockReply.res.kind = "Ok"
    /\ blockReply.only_top_call
    /\ LET stored == TraceForMiniblock(blockReply.block_id)
       IN /\ Len(stored) >= 2
          /\ stored[1] # stored[2]
          /\ stored[1].calls # <<>>
          /\ blockReply.res.value[2].result.gas = stored[2].gas

\* Vec<Call> to Vec<DebugCall>, as From<Call> for DebugCall does for the
\* children of a call.
ToDebugCalls(calls) == [i \in DOMAIN calls |-> ToDebugCall(calls[i])]

\* C17: the capture cell of a request holds only what the tracer of its own
\* VM invocation wrote first, the tree extracted from it is that or empty,
\* and the nested calls of its response are that tree converted: never a
\* tree that the VM invocation of another request wrote.
C17_CellPerRequest ==
    \A r \in Reqs :
        /\ cell[r].full => cell[r].value = NestedCallsOf(r, 1)
        /\ trace[r] \in {<<>>, NestedCallsOf(r, 1)}
        /\ result[r].kind = "Ok" =>
              /\ result[r].value.calls = ToDebugCalls(trace[r])
              /\ \A q \in Reqs \ {r}, k \in 1..MaxWrites :
                    result[r].value.calls # ToDebugCalls(NestedCallsOf(q, k))

\* C17 witness: two requests ran with a tracer attached, each VM invocation
\* wrote its tree, and each response carries its own.
C17_Witness ==
    \E r1, r2 \in Reqs :
        /\ r1 # r2
        /\ pc[r1] = "Done" /\ pc[r2] = "Done"
        /\ result[r1].value.calls = ToDebugCalls(NestedCallsOf(r1, 1))
        /\ result[r2].value.calls = ToDebugCalls(NestedCallsOf(r2, 1))
        /\ result[r1].value.calls # result[r2].value.calls

\* The requests suspended in acquire().
Waiters == {r \in Reqs : pc[r] = "AcquiringSlot"}

\* C18: a request that fails in ResolvingBlock (no connection, storage
\* error, no such block) or in BuildingTx (malformed request) has not been
\* near the limiter or the VM and is not after the step; the step leaves the
\* free permits, the holders and the waiters as they were.
C18_EarlyFailureTakesNoPermit ==
    [][\A r \in Reqs :
         (pc[r] \in {"ResolvingBlock", "BuildingTx"} /\ pc'[r] = "Failed") =>
            /\ result'[r].kind = "Err"
            /\ result'[r].error \in {"InternalError", "NoBlock", "SerializationError"}
            /\ VmNeverInvoked(r)
            /\ VmNeverInvoked(r)'
            /\ available' = available
            /\ held' = held
            /\ Waiters' = Waiters]_vars

\* C18 witness: a request failed on a missing block or on a malformed
\* request while another request held a permit.
C18_Witness ==
    \E r1, r2 \in Reqs :
        /\ pc[r1] = "Failed"
        /\ result[r1].kind = "Err"
        /\ result[r1].error \in {"NoBlock", "SerializationError"}
        /\ VmNeverInvoked(r1)
        /\ r2 \in held
        /\ available = capacity - 1

\* C19: a request holds a storage connection only inside ResolvingBlock: it
\* has none while it builds the transaction, waits for a permit or runs the
\* VM, nor in any later phase, nor after it failed or was dropped.
C19_NoConnectionWhileWaiting ==
    \A r \in Reqs :
        /\ conn[r] => pc[r] = "ResolvingBlock"
        /\ pc[r] \in {"AcquiringSlot", "Executing"} =>
              /\ ~conn[r]
              /\ blockArgs[r].kind = "Ok"

\* C19 witness: two requests that each resolved their block over a
\* connection; one now waits for the permit the other one's VM invocation
\* holds, and neither has a connection.
C19_Witness ==
    \E r1, r2 \in Reqs :
        /\ pc[r1] = "AcquiringSlot" /\ pc[r2] = "Executing"
        /\ blockArgs[r1].kind = "Ok" /\ blockArgs[r2].kind = "Ok"
        /\ ~conn[r1] /\ ~conn[r2]
        /\ available = 0

\* The requests that were handed a permit so far.
Admitted == {r \in Reqs : r \in held \/ released[r] > 0}

\* C20: on an open limiter with at least one permit, with VM invocations
\* that end and requests that are not dropped, waiting does not last:
\* whenever a request waits for a permit one more request is eventually
\* admitted to the VM, and every request that was started eventually is
\* Done or Failed.
C20_NoDeadlock ==
    /\ \A n \in 0..(NumReqs - 1) :
          (Waiters # {} /\ Cardinality(Admitted) = n) ~> (Cardinality(Admitted) > n)
    /\ \A r \in Reqs :
          (pc[r] # "Idle") ~> (pc[r] \in {"Done", "Failed"})

\* C20 witness: the limiter is open and out of permits: a request waits
\* while the VM invocation of another one holds the permit.
C20_Witness ==
    \E r1, r2 \in Reqs :
        /\ ~closed /\ capacity >= 1 /\ available = 0
        /\ pc[r1] = "AcquiringSlot"
        /\ pc[r2] = "Executing" /\ r2 \in held

====
